---- MODULE Spec2Model ----
(***************************************************************************)
(* ACSI bus engine of acsi2stm (Acsi.cpp): command capture, the IRQ byte   *)
(* protocol and the DMA block transfers, together with the hardware the    *)
(* code programs (Timer1 clocked by ACK, DMA1 CH6 copying GPIOB to CCR1)   *)
(* and the host on the other end of the bus.                               *)
(***************************************************************************)
EXTENDS Integers, Sequences, FiniteSets, TLC

VARIABLES
  systick,    \* TRUE iff the systick interrupt is enabled
  crhA,       \* GPIOA->regs->CRH (pins PA8..PA15: IRQ = PA8, DRQ = PA11, ACK = PA12)
  crhB,       \* GPIOB->regs->CRH (pins PB8..PB15: the data bus)
  odrB,       \* GPIOB->regs->ODR
  CNT,        \* ACSI_TIMER->CNT
  CEN,        \* TIMER_CR1_CEN of ACSI_TIMER->CR1
  CCR1,       \* ACSI_TIMER->CCR1, written by DMA1 CH6
  cs, a1, ack,\* levels of the host driven lines (0 = low, 1 = high)
  hostData,   \* the byte the host puts on the data bus
  pc,         \* position of the engine in the code
  caller,     \* the function the running readIrq()/sendIrq(byte) returns to
  mask,       \* waitCommand: parameter mask
  port,       \* waitCommand: local port
  idrA,       \* the GPIOA->regs->IDR value read by the last idle()
  b,          \* readIrq(): local b
  byte,       \* sendIrq(byte): parameter byte
  retval,     \* value returned by the last waitCommand / readIrq()
  bytes,      \* the caller's buffer (1-based sequence, bytes[k+1] is C's bytes[k])
  count,      \* parameter count (decremented by the multi-byte readIrq/sendIrq)
  i,          \* readDma/sendDma: local i
  slot,       \* readDma/sendDma: the index b of the unrolled ACSI_*_BYTE(b)
  inBatch,    \* readDma/sendDma: TRUE in the unrolled for loop, FALSE in the while loop
  off,        \* how far the pointer bytes has been advanced
  lastRet,    \* name of the top-level call that returned last
  req,        \* the value of count at the call
  touched,    \* buffer indices accessed by the running block transfer, in order
  resets,     \* number of ACSI_TIMER->CNT = 0 writes of the running block transfer
  overrunAt,  \* first slot whose wait loop ended on a counter value above 1, or -1
  rec,        \* loopback host: data bus values seen at the ACK edges of sendDma
  sent,       \* loopback host: the block given to the last sendDma
  acks,       \* loopback host: answered request pulses of the running transfer
  extra,      \* ACK edges of the running transfer that answer no request pulse
  carefulDma, \* build flag ACSI_CAREFUL_DMA
  csSeen      \* TRUE iff the running call has sampled the CS low period in progress

hwVars     == <<systick, crhA, crhB, odrB>>
timerVars  == <<CNT, CEN, CCR1>>
hostVars   == <<cs, a1, ack, hostData>>
localVars  == <<caller, mask, port, idrA, b, byte, retval, bytes, count, i, slot,
               inBatch, off>>
ghostVars  == <<lastRet, req, touched, resets, overrunAt>>
loopVars   == <<rec, sent, acks, extra>>
vars == <<systick, crhA, crhB, odrB, CNT, CEN, CCR1, cs, a1, ack, hostData,
          pc, caller, mask, port, idrA, b, byte, retval, bytes, count, i, slot, inBatch, off,
          lastRet, req, touched, resets, overrunAt, rec, sent, acks, extra,
          carefulDma, csSeen>>

(***************************************************************************)
(* Bounds of the model.                                                    *)
(***************************************************************************)
MaxIrqCount == 2   \* longest multi-byte readIrq / sendIrq
MaxDmaCount == 1   \* longest block transfer against the free host
MaxCnt      == 2   \* single ACK edges are counted up to this counter value
MaxExtraAck == 1   \* ACK edges without a request pulse, per block transfer
MaxBatches  == 2   \* the loopback host transfers up to MaxBatches * 16 + 1 bytes

(***************************************************************************)
(* Pin masks and register values of the source.                            *)
(***************************************************************************)
A1_MASK  == 64
CS_MASK  == 128
IRQ_MASK == 256
DRQ_MASK == 2048
ACK_MASK == 4096

CRH_RELEASED  == 1145326516  \* 0x44444BB4
CRH_IRQ_LOW   == 1145326515  \* 0x44444BB3
CRH_DRQ_PULL  == 1145342900  \* 0x44448BB4
CRH_DRQ_PWM   == 1145355188  \* 0x4444BBB4
CRH_DATA_IN   == 1145324612  \* 0x44444444
CRH_DATA_OUT  == 858993459   \* 0x33333333

ARR  == 65535
CCR3 == 1
CCR4 == 1
UNROLL == 16

RECURSIVE BitAnd(_, _)
BitAnd(x, y) ==
  IF x = 0 \/ y = 0 THEN 0
  ELSE (x % 2) * (y % 2) + 2 * BitAnd(x \div 2, y \div 2)

RECURSIVE BitOr(_, _)
BitOr(x, y) ==
  IF x = 0 THEN y
  ELSE IF y = 0 THEN x
  ELSE (IF x % 2 = 1 \/ y % 2 = 1 THEN 1 ELSE 0) + 2 * BitOr(x \div 2, y \div 2)

RECURSIVE Pow2(_)
Pow2(n) == IF n = 0 THEN 1 ELSE 2 * Pow2(n - 1)

\* The 4 configuration bits of pin PAn / PBn (8 <= n <= 15) in a CRH value.
PinCnf(crh, n) == (crh \div Pow2(4 * (n - 8))) % 16

(***************************************************************************)
(* The bus lines as the ports see them.                                    *)
(***************************************************************************)
\* PB8..PB15 are driven by the engine when configured as outputs (CNF/MODE 3).
DataDriven == PinCnf(crhB, 8) = 3

DataBus == IF DataDriven THEN (odrB \div 256) % 256 ELSE hostData

\* IRQ is pulled low while PA8 is a push-pull output (ODR bit 8 is 0).
IrqLine == IF PinCnf(crhA, 8) = 3 THEN 0 ELSE 1

\* DRQ follows the PWM output of channel 4 while PA11 is an alternate
\* function output: high if the counter reached CCR4, low at 0.
DrqLine == IF PinCnf(crhA, 11) = 11 THEN (IF CNT >= CCR4 THEN 1 ELSE 0) ELSE 1

GPIOA_IDR == IrqLine * IRQ_MASK + DrqLine * DRQ_MASK + ack * ACK_MASK

GPIOB_IDR == DataBus * 256 + cs * CS_MASK + a1 * A1_MASK

(***************************************************************************)
(* Pure functions of the source.                                           *)
(***************************************************************************)
\* idle(): == binds tighter than | in C, so the comparison result is or-ed
\* with DRQ_MASK | ACK_MASK before the conversion to bool.
idle(idr) ==
  LET cmp == IF BitAnd(idr, BitOr(BitOr(IRQ_MASK, DRQ_MASK), ACK_MASK)) = IRQ_MASK
             THEN 1 ELSE 0
  IN  BitOr(BitOr(cmp, DRQ_MASK), ACK_MASK) # 0

\* The strobe test of waitCommand's inner loop: port & (A1_MASK | CS_MASK).
Strobe(p) == BitAnd(p, BitOr(A1_MASK, CS_MASK)) = 0

\* The device id test of waitCommand: (1 << (port >> (8+5))) & mask.
DeviceSelectedAny(p, m) == TRUE

DeviceSelected(p, m) == BitAnd(Pow2(p \div Pow2(8 + 5)), m) # 0

\* (uint8_t)(x >> 8)
HighByteLow(x) == x % 256

HighByte(x) == (x \div 256) % 256

readCsHigh == TRUE

readCs == BitAnd(GPIOB_IDR, CS_MASK) # 0

\* Loop tests of readDma / sendDma.
ForTest(ii, n) == ii <= n - UNROLL

WhileTest(ii, n) == ii < n

\* bytes += 16 at the end of an unrolled batch.
BatchAdvanceNone(o) == o

BatchAdvance(o) == o + UNROLL

(***************************************************************************)
(* Values the callers and the host choose from.                            *)
(***************************************************************************)
HostBytes   == {8, 255}          \* device ids 0 and 7 in the top three bits
DeviceMasks == {0, 1, 132}       \* no device, device 0, devices 2 and 7
SendBytes   == {0, 165}

Blocks(n)  == UNION {[1..k -> SendBytes] : k \in 0..n}
Zeroes(n)  == [k \in 1..n |-> 0]

\* The blocks of the loopback host: the values at any two indices less than
\* 256 apart differ, and they wrap around 255.
Pattern(seed, n) == [k \in 1..n |-> (seed + 7 * k) % 256]
LoopCounts == {0, 1, UNROLL - 1, UNROLL, UNROLL + 1} \cup
              {m * UNROLL + 1 : m \in 2..MaxBatches}
LoopBlocks == {Pattern(seed, n) : seed \in {250}, n \in LoopCounts}

(***************************************************************************)
(* Hardware reactions.                                                     *)
(***************************************************************************)
\* A falling edge of ACK clocks Timer1 (external clock mode 1, ETP). In one
\* pulse mode the update event at the overflow of ARR clears CEN. A match
\* of CCR3 requests DMA1 CH6, which copies GPIOB IDR to CCR1.
Tick ==
  /\ CEN' = (CEN /\ CNT # ARR)
  /\ CNT' = IF ~CEN THEN CNT ELSE IF CNT = ARR THEN 0 ELSE CNT + 1
  /\ CCR1' = IF CEN /\ CNT' = CCR3 THEN GPIOB_IDR' ELSE CCR1

(***************************************************************************)
(* Initial state: begin() has run on an idle bus.                          *)
(***************************************************************************)
setupDrqTimer == CNT = 2 /\ CEN = TRUE /\ CCR1 = 0

setupGpio == crhA = CRH_RELEASED /\ crhB = CRH_DATA_IN /\ odrB = 0

InitEngine ==
  /\ setupDrqTimer
  /\ setupGpio
  /\ systick = TRUE
  /\ cs = 1 /\ a1 = 1 /\ ack = 1 /\ hostData = 255
  /\ pc = "idle" /\ caller = "none" /\ mask = 0 /\ port = 0 /\ idrA = 0
  /\ b = 0 /\ byte = 0 /\ retval = 0 /\ bytes = <<>> /\ count = 0
  /\ i = 0 /\ slot = 0 /\ inBatch = FALSE /\ off = 0
  /\ lastRet = "none" /\ req = 0 /\ touched = <<>> /\ resets = 0
  /\ overrunAt = -1
  /\ rec = <<>> /\ sent = <<>> /\ acks = 0 /\ extra = 0
  /\ csSeen = FALSE

Init == InitEngine /\ carefulDma = FALSE

(***************************************************************************)
(* Register writes of the source.                                          *)
(***************************************************************************)
releaseRq == crhA' = CRH_RELEASED

releaseDataBusSkipped == crhB' = crhB

releaseDataBus == crhB' = CRH_DATA_IN

acquireDataBus == crhB' = CRH_DATA_OUT

pullIrq == crhA' = CRH_IRQ_LOW

writeData(v) == odrB' = v * 256

systick_disable == systick' = FALSE

systick_enable == systick' = TRUE

\* A top-level call starts: its locals are fresh and the bookkeeping of the
\* previous call is cleared.
Enter(first, m, v, blk, n) ==
  /\ pc = "idle"
  /\ pc' = first
  /\ caller' = "none"
  /\ mask' = m /\ byte' = v /\ bytes' = blk
  /\ count' = n /\ req' = n
  /\ port' = 0 /\ idrA' = 0 /\ b' = 0 /\ retval' = 0
  /\ i' = 0 /\ slot' = 0 /\ inBatch' = FALSE /\ off' = 0
  /\ touched' = <<>> /\ resets' = 0 /\ overrunAt' = -1
  /\ lastRet' = "none"
  /\ acks' = 0
  /\ csSeen' = FALSE
  /\ UNCHANGED <<hwVars, timerVars, hostVars, carefulDma>>

Return(name) == pc' = "idle" /\ lastRet' = name

(***************************************************************************)
(* waitCommand(mask)                                                       *)
(***************************************************************************)
waitCommand_call(m) ==
  /\ Enter("waitCommand_systick", m, 0, <<>>, 0)
  /\ UNCHANGED <<rec, sent, extra>>

waitCommand_systick ==
  /\ pc = "waitCommand_systick"
  /\ systick_disable
  /\ pc' = "waitCommand_poll"
  /\ UNCHANGED <<crhA, crhB, odrB, timerVars, hostVars, localVars, ghostVars,
                 loopVars, carefulDma, csSeen>>

\* while((port = GPIOB->regs->IDR) & (A1_MASK | CS_MASK)); followed by the
\* device id test of the outer loop, which short-circuits idle().
waitCommand_poll ==
  /\ pc = "waitCommand_poll"
  /\ port' = GPIOB_IDR
  /\ pc' = IF Strobe(port') /\ DeviceSelected(port', mask)
           THEN "waitCommand_idle" ELSE "waitCommand_poll"
  /\ UNCHANGED <<hwVars, timerVars, hostVars, caller, mask, idrA, b, byte, retval,
                 bytes, count, i, slot, inBatch, off, ghostVars, loopVars,
                 carefulDma, csSeen>>

\* ... || !idle()
waitCommand_idle ==
  /\ pc = "waitCommand_idle"
  /\ idrA' = GPIOA_IDR
  /\ pc' = IF idle(idrA') THEN "waitCommand_cs" ELSE "waitCommand_poll"
  /\ UNCHANGED <<hwVars, timerVars, hostVars, caller, mask, port, b, byte, retval,
                 bytes, count, i, slot, inBatch, off, ghostVars, loopVars,
                 carefulDma, csSeen>>

\* while(!readCs());
waitCommand_cs ==
  /\ pc = "waitCommand_cs"
  /\ pc' = IF readCs THEN "waitCommand_ret" ELSE "waitCommand_cs"
  /\ UNCHANGED <<hwVars, timerVars, hostVars, localVars, ghostVars, loopVars,
                 carefulDma, csSeen>>

waitCommand_retNoEnable ==
  /\ pc = "waitCommand_ret"
  /\ retval' = HighByte(port)
  /\ Return("waitCommand")
  /\ UNCHANGED <<hwVars, timerVars, hostVars, caller, mask, port, idrA, b, byte,
                 bytes, count, i, slot, inBatch, off, req, touched, resets,
                 overrunAt, loopVars, carefulDma, csSeen>>

waitCommand_retRereads ==
  /\ pc = "waitCommand_ret"
  /\ systick_enable
  /\ retval' = HighByte(GPIOB_IDR)
  /\ Return("waitCommand")
  /\ UNCHANGED <<crhA, crhB, odrB, timerVars, hostVars, caller, mask, port, idrA,
                 b, byte, bytes, count, i, slot, inBatch, off, req, touched,
                 resets, overrunAt, loopVars, carefulDma, csSeen>>

waitCommand_ret ==
  /\ pc = "waitCommand_ret"
  /\ systick_enable
  /\ retval' = HighByte(port)
  /\ Return("waitCommand")
  /\ UNCHANGED <<crhA, crhB, odrB, timerVars, hostVars, caller, mask, port, idrA,
                 b, byte, bytes, count, i, slot, inBatch, off, req, touched,
                 resets, overrunAt, loopVars, carefulDma, csSeen>>

(***************************************************************************)
(* readIrq()                                                               *)
(***************************************************************************)
readIrq_call ==
  /\ Enter("readIrq_systick", 0, 0, <<>>, 0)
  /\ UNCHANGED <<rec, sent, extra>>

readIrq_systick ==
  /\ pc = "readIrq_systick"
  /\ systick_disable
  /\ pc' = "readIrq_pullIrq"
  /\ UNCHANGED <<crhA, crhB, odrB, timerVars, hostVars, localVars, ghostVars,
                 loopVars, carefulDma, csSeen>>

readIrq_pullIrq ==
  /\ pc = "readIrq_pullIrq"
  /\ pullIrq
  /\ pc' = "readIrq_poll"
  /\ UNCHANGED <<systick, crhB, odrB, timerVars, hostVars, localVars, ghostVars,
                 loopVars, carefulDma, csSeen>>

readIrq_pollCsHigh ==
  /\ pc = "readIrq_poll"
  /\ b' = GPIOB_IDR
  /\ pc' = IF BitAnd(b', CS_MASK) = 0 THEN "readIrq_poll" ELSE "readIrq_releaseRq"
  /\ csSeen' = (csSeen \/ BitAnd(b', CS_MASK) = 0)
  /\ UNCHANGED <<hwVars, timerVars, hostVars, caller, mask, port, idrA, byte,
                 retval, bytes, count, i, slot, inBatch, off, ghostVars, loopVars,
                 carefulDma>>

\* while((b = GPIOB->regs->IDR) & (CS_MASK));
readIrq_poll ==
  /\ pc = "readIrq_poll"
  /\ b' = GPIOB_IDR
  /\ pc' = IF BitAnd(b', CS_MASK) # 0 THEN "readIrq_poll" ELSE "readIrq_releaseRq"
  /\ csSeen' = (csSeen \/ BitAnd(b', CS_MASK) = 0)
  /\ UNCHANGED <<hwVars, timerVars, hostVars, caller, mask, port, idrA, byte,
                 retval, bytes, count, i, slot, inBatch, off, ghostVars, loopVars,
                 carefulDma>>

readIrq_releaseRq ==
  /\ pc = "readIrq_releaseRq"
  /\ releaseRq
  /\ pc' = "readIrq_ret"
  /\ UNCHANGED <<systick, crhB, odrB, timerVars, hostVars, localVars, ghostVars,
                 loopVars, carefulDma, csSeen>>

readIrq_ret ==
  /\ pc = "readIrq_ret"
  /\ systick_enable
  /\ retval' = HighByte(b)
  /\ IF caller = "readIrqN"
     THEN pc' = "readIrqN_store" /\ lastRet' = lastRet
     ELSE Return("readIrq")
  /\ UNCHANGED <<crhA, crhB, odrB, timerVars, hostVars, caller, mask, port, idrA,
                 b, byte, bytes, count, i, slot, inBatch, off, req, touched,
                 resets, overrunAt, loopVars, carefulDma, csSeen>>

(***************************************************************************)
(* readIrq(bytes, count)                                                   *)
(***************************************************************************)
readIrqN_call(n) ==
  /\ Enter("readIrqN_systick", 0, 0, Zeroes(n), n)
  /\ UNCHANGED <<rec, sent, extra>>

readIrqN_systick ==
  /\ pc = "readIrqN_systick"
  /\ systick_disable
  /\ pc' = "readIrqN_loop"
  /\ UNCHANGED <<crhA, crhB, odrB, timerVars, hostVars, localVars, ghostVars,
                 loopVars, carefulDma, csSeen>>

\* while(count > 0) { *bytes = readIrq(); ...
readIrqN_loop ==
  /\ pc = "readIrqN_loop"
  /\ IF count > 0
     THEN pc' = "readIrq_systick" /\ caller' = "readIrqN"
     ELSE pc' = "readIrqN_cs" /\ caller' = caller
  /\ UNCHANGED <<hwVars, timerVars, hostVars, mask, port, idrA, b, byte, retval,
                 bytes, count, i, slot, inBatch, off, ghostVars, loopVars,
                 carefulDma, csSeen>>

\* *bytes = <returned byte>; ++bytes; --count;
readIrqN_store ==
  /\ pc = "readIrqN_store"
  /\ bytes' = [bytes EXCEPT ![off + 1] = retval]
  /\ off' = off + 1
  /\ count' = count - 1
  /\ pc' = "readIrqN_loop"
  /\ UNCHANGED <<hwVars, timerVars, hostVars, caller, mask, port, idrA, b, byte,
                 retval, i, slot, inBatch, ghostVars, loopVars, carefulDma, csSeen>>

\* while(!readCs());
readIrqN_cs ==
  /\ pc = "readIrqN_cs"
  /\ pc' = IF readCs THEN "readIrqN_ret" ELSE "readIrqN_cs"
  /\ UNCHANGED <<hwVars, timerVars, hostVars, localVars, ghostVars, loopVars,
                 carefulDma, csSeen>>

readIrqN_ret ==
  /\ pc = "readIrqN_ret"
  /\ systick_enable
  /\ Return("readIrqN")
  /\ UNCHANGED <<crhA, crhB, odrB, timerVars, hostVars, localVars, req, touched,
                 resets, overrunAt, loopVars, carefulDma, csSeen>>

(***************************************************************************)
(* sendIrq(byte)                                                           *)
(***************************************************************************)
sendIrq_call(v) ==
  /\ Enter("sendIrq_systick", 0, v, <<>>, 0)
  /\ UNCHANGED <<rec, sent, extra>>

sendIrq_systick ==
  /\ pc = "sendIrq_systick"
  /\ systick_disable
  /\ pc' = "sendIrq_acquireDataBus"
  /\ UNCHANGED <<crhA, crhB, odrB, timerVars, hostVars, localVars, ghostVars,
                 loopVars, carefulDma, csSeen>>

sendIrq_acquireDataBus ==
  /\ pc = "sendIrq_acquireDataBus"
  /\ acquireDataBus
  /\ pc' = "sendIrq_writeData"
  /\ UNCHANGED <<systick, crhA, odrB, timerVars, hostVars, localVars, ghostVars,
                 loopVars, carefulDma, csSeen>>

sendIrq_writeData ==
  /\ pc = "sendIrq_writeData"
  /\ writeData(byte)
  /\ pc' = "sendIrq_pullIrq"
  /\ UNCHANGED <<systick, crhA, crhB, timerVars, hostVars, localVars, ghostVars,
                 loopVars, carefulDma, csSeen>>

sendIrq_pullIrq ==
  /\ pc = "sendIrq_pullIrq"
  /\ pullIrq
  /\ pc' = "sendIrq_csLow"
  /\ UNCHANGED <<systick, crhB, odrB, timerVars, hostVars, localVars, ghostVars,
                 loopVars, carefulDma, csSeen>>

\* while(readCs());
sendIrq_csLow ==
  /\ pc = "sendIrq_csLow"
  /\ pc' = IF readCs THEN "sendIrq_csLow" ELSE "sendIrq_csHigh"
  /\ UNCHANGED <<hwVars, timerVars, hostVars, localVars, ghostVars, loopVars,
                 carefulDma, csSeen>>

sendIrq_csHighSkipped ==
  /\ pc = "sendIrq_csHigh"
  /\ pc' = "sendIrq_releaseDataBus"
  /\ UNCHANGED <<hwVars, timerVars, hostVars, localVars, ghostVars, loopVars,
                 carefulDma, csSeen>>

\* while(!readCs());
sendIrq_csHigh ==
  /\ pc = "sendIrq_csHigh"
  /\ pc' = IF readCs THEN "sendIrq_releaseDataBus" ELSE "sendIrq_csHigh"
  /\ UNCHANGED <<hwVars, timerVars, hostVars, localVars, ghostVars, loopVars,
                 carefulDma, csSeen>>

\* releaseBus(): releaseDataBus(); releaseRq();
sendIrq_releaseDataBus ==
  /\ pc = "sendIrq_releaseDataBus"
  /\ releaseDataBus
  /\ pc' = "sendIrq_releaseRq"
  /\ UNCHANGED <<systick, crhA, odrB, timerVars, hostVars, localVars, ghostVars,
                 loopVars, carefulDma, csSeen>>

sendIrq_releaseRq ==
  /\ pc = "sendIrq_releaseRq"
  /\ releaseRq
  /\ pc' = "sendIrq_ret"
  /\ UNCHANGED <<systick, crhB, odrB, timerVars, hostVars, localVars, ghostVars,
                 loopVars, carefulDma, csSeen>>

sendIrq_ret ==
  /\ pc = "sendIrq_ret"
  /\ systick_enable
  /\ IF caller = "sendIrqN"
     THEN pc' = "sendIrqN_next" /\ lastRet' = lastRet
     ELSE Return("sendIrq")
  /\ UNCHANGED <<crhA, crhB, odrB, timerVars, hostVars, localVars, req, touched,
                 resets, overrunAt, loopVars, carefulDma, csSeen>>

(***************************************************************************)
(* sendIrq(bytes, count)                                                   *)
(***************************************************************************)
sendIrqN_call(blk) ==
  /\ Enter("sendIrqN_loop", 0, 0, blk, Len(blk))
  /\ UNCHANGED <<rec, sent, extra>>

\* while(count > 0) { sendIrq(*bytes); ...
sendIrqN_loop ==
  /\ pc = "sendIrqN_loop"
  /\ IF count > 0
     THEN /\ pc' = "sendIrq_systick"
          /\ caller' = "sendIrqN"
          /\ byte' = bytes[off + 1]
          /\ lastRet' = lastRet
     ELSE /\ Return("sendIrqN")
          /\ UNCHANGED <<caller, byte>>
  /\ UNCHANGED <<hwVars, timerVars, hostVars, mask, port, idrA, b, retval, bytes,
                 count, i, slot, inBatch, off, req, touched, resets, overrunAt,
                 loopVars, carefulDma, csSeen>>

\* ++bytes; --count;
sendIrqN_next ==
  /\ pc = "sendIrqN_next"
  /\ off' = off + 1
  /\ count' = count - 1
  /\ pc' = "sendIrqN_loop"
  /\ UNCHANGED <<hwVars, timerVars, hostVars, caller, mask, port, idrA, b, byte,
                 retval, bytes, i, slot, inBatch, ghostVars, loopVars, carefulDma, csSeen>>

(***************************************************************************)
(* readDma / sendDma: the loops around ACSI_READ_BYTE and ACSI_SEND_BYTE.  *)
(***************************************************************************)
\* Entry of the loops (i = 0): the for test, then the while test.
LoopEnter(body, done) ==
  /\ i' = 0
  /\ slot' = 0
  /\ off' = off
  /\ inBatch' = ForTest(0, count)
  /\ pc' = IF ForTest(0, count) \/ WhileTest(0, count) THEN body ELSE done

\* After the byte slot ACSI_*_BYTE(slot): the next slot of the unrolled
\* batch, or the end of the batch (bytes += 16, i += 16 and the for test),
\* or one round of the while loop (++i, ++bytes and the while test).
LoopStep(body, done) ==
  IF inBatch /\ slot < UNROLL - 1
  THEN /\ slot' = slot + 1
       /\ pc' = body
       /\ UNCHANGED <<i, off, inBatch>>
  ELSE /\ slot' = 0
       /\ i' = IF inBatch THEN i + UNROLL ELSE i + 1
       /\ off' = IF inBatch THEN BatchAdvance(off) ELSE off + 1
       /\ inBatch' = (inBatch /\ ForTest(i', count))
       /\ pc' = IF inBatch' \/ WhileTest(i', count) THEN body ELSE done

\* acquireDrq()
acquireDrq_cnt(next) ==
  /\ CNT' = 2
  /\ pc' = next
  /\ UNCHANGED <<hwVars, CEN, CCR1, hostVars, localVars, ghostVars, loopVars,
                 carefulDma, csSeen>>

acquireDrq_crh(value, next) ==
  /\ crhA' = value
  /\ pc' = next
  /\ UNCHANGED <<systick, crhB, odrB, timerVars, hostVars, localVars, ghostVars,
                 loopVars, carefulDma, csSeen>>

\* ACSI_TIMER->CNT = 0;
ResetCounter(next) ==
  /\ CNT' = 0
  /\ resets' = resets + 1
  /\ pc' = next
  /\ UNCHANGED <<hwVars, CEN, CCR1, hostVars, localVars, lastRet, req, touched,
                 overrunAt, loopVars, carefulDma, csSeen>>

\* The counter value on which while(ACSI_TIMER->CNT == 0); ends.
NoteOverrun ==
  overrunAt' = IF overrunAt = -1 /\ CNT > 1 THEN resets - 1 ELSE overrunAt

readDma_call(n) ==
  /\ Enter("readDma_systick", 0, 0, Zeroes(n), n)
  /\ UNCHANGED <<rec, sent, extra>>

readDma_systick ==
  /\ pc = "readDma_systick"
  /\ systick_disable
  /\ pc' = "readDma_acquireDrq"
  /\ UNCHANGED <<crhA, crhB, odrB, timerVars, hostVars, localVars, ghostVars,
                 loopVars, carefulDma, csSeen>>

readDma_acquireDrq ==
  /\ pc = "readDma_acquireDrq"
  /\ acquireDrq_cnt("readDma_acquireDrq2")

readDma_acquireDrq2 ==
  /\ pc = "readDma_acquireDrq2"
  /\ acquireDrq_crh(CRH_DRQ_PULL, "readDma_acquireDrq3")

readDma_acquireDrq3 ==
  /\ pc = "readDma_acquireDrq3"
  /\ crhA' = CRH_DRQ_PWM
  /\ LoopEnter("readDma_reset", "readDma_releaseDataBus")
  /\ UNCHANGED <<systick, crhB, odrB, timerVars, hostVars, caller, mask, port,
                 idrA, b, byte, retval, bytes, count, ghostVars, loopVars,
                 carefulDma, csSeen>>

readDma_reset ==
  /\ pc = "readDma_reset"
  /\ ResetCounter("readDma_wait")

readDma_waitSkipped ==
  /\ pc = "readDma_wait"
  /\ pc' = "readDma_store"
  /\ NoteOverrun
  /\ UNCHANGED <<hwVars, timerVars, hostVars, localVars, lastRet, req, touched,
                 resets, loopVars, carefulDma, csSeen>>

\* while(ACSI_TIMER->CNT == 0);
readDma_wait ==
  /\ pc = "readDma_wait"
  /\ IF CNT = 0
     THEN UNCHANGED <<pc, overrunAt>>
     ELSE pc' = "readDma_store" /\ NoteOverrun
  /\ UNCHANGED <<hwVars, timerVars, hostVars, localVars, lastRet, req, touched,
                 resets, loopVars, carefulDma, csSeen>>

\* bytes[b] = (uint8_t)(ACSI_TIMER->CCR1 >> 8); and the loop control after it
readDma_store ==
  /\ pc = "readDma_store"
  /\ bytes' = [bytes EXCEPT ![off + slot + 1] = HighByte(CCR1)]
  /\ touched' = Append(touched, off + slot)
  /\ LoopStep("readDma_reset", "readDma_releaseDataBus")
  /\ UNCHANGED <<hwVars, timerVars, hostVars, caller, mask, port, idrA, b, byte,
                 retval, count, lastRet, req, resets, overrunAt, loopVars,
                 carefulDma, csSeen>>

readDma_releaseDataBus ==
  /\ pc = "readDma_releaseDataBus"
  /\ releaseDataBus
  /\ pc' = "readDma_releaseRq"
  /\ UNCHANGED <<systick, crhA, odrB, timerVars, hostVars, localVars, ghostVars,
                 loopVars, carefulDma, csSeen>>

readDma_releaseRq ==
  /\ pc = "readDma_releaseRq"
  /\ releaseRq
  /\ pc' = "readDma_ret"
  /\ UNCHANGED <<systick, crhB, odrB, timerVars, hostVars, localVars, ghostVars,
                 loopVars, carefulDma, csSeen>>

readDma_ret ==
  /\ pc = "readDma_ret"
  /\ systick_enable
  /\ Return("readDma")
  /\ UNCHANGED <<crhA, crhB, odrB, timerVars, hostVars, localVars, req, touched,
                 resets, overrunAt, loopVars, carefulDma, csSeen>>

sendDma_call(blk) ==
  /\ Enter("sendDma_systick", 0, 0, blk, Len(blk))

sendDma_systick ==
  /\ pc = "sendDma_systick"
  /\ systick_disable
  /\ pc' = "sendDma_acquireDataBus"
  /\ UNCHANGED <<crhA, crhB, odrB, timerVars, hostVars, localVars, ghostVars,
                 loopVars, carefulDma, csSeen>>

sendDma_acquireDataBus ==
  /\ pc = "sendDma_acquireDataBus"
  /\ acquireDataBus
  /\ pc' = "sendDma_acquireDrq"
  /\ UNCHANGED <<systick, crhA, odrB, timerVars, hostVars, localVars, ghostVars,
                 loopVars, carefulDma, csSeen>>

sendDma_acquireDrq ==
  /\ pc = "sendDma_acquireDrq"
  /\ acquireDrq_cnt("sendDma_acquireDrq2")

sendDma_acquireDrq2 ==
  /\ pc = "sendDma_acquireDrq2"
  /\ acquireDrq_crh(CRH_DRQ_PULL, "sendDma_acquireDrq3")

sendDma_acquireDrq3 ==
  /\ pc = "sendDma_acquireDrq3"
  /\ crhA' = CRH_DRQ_PWM
  /\ LoopEnter("sendDma_writeData", "sendDma_releaseDataBus")
  /\ UNCHANGED <<systick, crhB, odrB, timerVars, hostVars, caller, mask, port,
                 idrA, b, byte, retval, bytes, count, ghostVars, loopVars,
                 carefulDma, csSeen>>

\* writeData(bytes[b]);
sendDma_writeData ==
  /\ pc = "sendDma_writeData"
  /\ writeData(bytes[off + slot + 1])
  /\ touched' = Append(touched, off + slot)
  /\ pc' = "sendDma_reset"
  /\ UNCHANGED <<systick, crhA, crhB, timerVars, hostVars, localVars, lastRet,
                 req, resets, overrunAt, loopVars, carefulDma, csSeen>>

sendDma_reset ==
  /\ pc = "sendDma_reset"
  /\ ResetCounter("sendDma_wait")

\* while(ACSI_TIMER->CNT == 0); and the loop control after it
sendDma_wait ==
  /\ pc = "sendDma_wait"
  /\ IF CNT = 0
     THEN UNCHANGED <<pc, overrunAt, i, slot, inBatch, off>>
     ELSE LoopStep("sendDma_writeData", "sendDma_releaseDataBus") /\ NoteOverrun
  /\ UNCHANGED <<hwVars, timerVars, hostVars, caller, mask, port, idrA, b, byte,
                 retval, bytes, count, lastRet, req, touched, resets, loopVars,
                 carefulDma, csSeen>>

sendDma_releaseDataBus ==
  /\ pc = "sendDma_releaseDataBus"
  /\ releaseDataBus
  /\ pc' = "sendDma_releaseRq"
  /\ UNCHANGED <<systick, crhA, odrB, timerVars, hostVars, localVars, ghostVars,
                 loopVars, carefulDma, csSeen>>

sendDma_releaseRq ==
  /\ pc = "sendDma_releaseRq"
  /\ releaseRq
  /\ pc' = "sendDma_ret"
  /\ UNCHANGED <<systick, crhB, odrB, timerVars, hostVars, localVars, ghostVars,
                 loopVars, carefulDma, csSeen>>

sendDma_ret ==
  /\ pc = "sendDma_ret"
  /\ systick_enable
  /\ Return("sendDma")
  /\ UNCHANGED <<crhA, crhB, odrB, timerVars, hostVars, localVars, req, touched,
                 resets, overrunAt, loopVars, carefulDma, csSeen>>

\* One step of the running call.
EngineStep ==
  \/ waitCommand_systick \/ waitCommand_poll \/ waitCommand_idle
  \/ waitCommand_cs \/ waitCommand_ret
  \/ readIrq_systick \/ readIrq_pullIrq \/ readIrq_poll \/ readIrq_releaseRq
  \/ readIrq_ret
  \/ readIrqN_systick \/ readIrqN_loop \/ readIrqN_store \/ readIrqN_cs
  \/ readIrqN_ret
  \/ sendIrq_systick \/ sendIrq_acquireDataBus \/ sendIrq_writeData
  \/ sendIrq_pullIrq \/ sendIrq_csLow \/ sendIrq_csHigh
  \/ sendIrq_releaseDataBus \/ sendIrq_releaseRq \/ sendIrq_ret
  \/ sendIrqN_loop \/ sendIrqN_next

DmaStep ==
  \/ readDma_systick \/ readDma_acquireDrq \/ readDma_acquireDrq2
  \/ readDma_acquireDrq3 \/ readDma_reset \/ readDma_wait \/ readDma_store
  \/ readDma_releaseDataBus \/ readDma_releaseRq \/ readDma_ret
  \/ sendDma_systick \/ sendDma_acquireDataBus \/ sendDma_acquireDrq
  \/ sendDma_acquireDrq2 \/ sendDma_acquireDrq3 \/ sendDma_writeData
  \/ sendDma_reset \/ sendDma_wait \/ sendDma_releaseDataBus
  \/ sendDma_releaseRq \/ sendDma_ret

(***************************************************************************)
(* The host and the other devices of the shared bus.                       *)
(***************************************************************************)
\* CS toggles; a rising edge ends the CS low period.
HostCs ==
  /\ cs' = 1 - cs
  /\ csSeen' = (csSeen /\ cs = 1)
  /\ UNCHANGED <<hwVars, timerVars, a1, ack, hostData, pc, localVars, ghostVars,
                 loopVars, carefulDma>>

HostA1 ==
  /\ a1' = 1 - a1
  /\ UNCHANGED <<hwVars, timerVars, cs, ack, hostData, pc, localVars, ghostVars,
                 loopVars, carefulDma, csSeen>>

HostData(d) ==
  /\ d # hostData
  /\ hostData' = d
  /\ UNCHANGED <<hwVars, timerVars, cs, a1, ack, pc, localVars, ghostVars,
                 loopVars, carefulDma, csSeen>>

\* ACK falls: Timer1 counts the edge.
AckFall ==
  /\ ack = 1
  /\ ~CEN \/ CNT < MaxCnt
  /\ ack' = 0
  /\ UNCHANGED <<hwVars, cs, a1, hostData>>
  /\ Tick
  /\ UNCHANGED <<pc, localVars, ghostVars, loopVars, carefulDma, csSeen>>

AckRise ==
  /\ ack = 0
  /\ ack' = 1
  /\ UNCHANGED <<hwVars, timerVars, cs, a1, hostData, pc, localVars, ghostVars,
                 loopVars, carefulDma, csSeen>>

\* A block transfer between the host and another device while this engine
\* runs no call: ARR - CNT + 1 or more ACK pulses, none of them seen by the
\* code. The counter passes ARR, and the update event stops it at 0.
ForeignBlock ==
  /\ pc = "idle"
  /\ ack = 1
  /\ CEN /\ CNT >= CCR3
  /\ CNT' = 0
  /\ CEN' = FALSE
  /\ UNCHANGED <<hwVars, CCR1, hostVars, pc, localVars, ghostVars, loopVars,
                 carefulDma, csSeen>>

Call ==
  \/ \E m \in DeviceMasks : waitCommand_call(m)
  \/ readIrq_call
  \/ \E n \in 0..MaxIrqCount : readIrqN_call(n)
  \/ \E v \in SendBytes : sendIrq_call(v)
  \/ \E blk \in Blocks(MaxIrqCount) : sendIrqN_call(blk)
  \/ \E n \in 0..MaxDmaCount : readDma_call(n)
  \/ \E blk \in Blocks(MaxDmaCount) :
       sendDma_call(blk) /\ UNCHANGED <<rec, sent, extra>>

Host ==
  \/ HostCs \/ HostA1 \/ (\E d \in HostBytes : HostData(d))
  \/ AckFall \/ AckRise

Next == Call \/ EngineStep \/ DmaStep \/ Host

Spec == Init /\ [][Next]_vars

(***************************************************************************)
(* The loopback host of the block transfers: it answers every request     *)
(* pulse (DRQ low) with one ACK pulse, records the data bus at the ACK     *)
(* edges of sendDma and replays the record, one value per answered         *)
(* request, during the readDma that follows. It may also produce ACK       *)
(* edges that answer no request.                                           *)
(***************************************************************************)
LoopSend(blk) ==
  /\ sendDma_call(blk)
  /\ rec' = <<>>
  /\ sent' = blk
  /\ extra' = 0

LoopRead ==
  /\ lastRet = "sendDma"
  /\ readDma_call(req)

LoopAck ==
  /\ DrqLine = 0
  /\ ack = 1
  /\ ack' = 0
  /\ acks' = IF acks < Len(sent) THEN acks + 1 ELSE acks
  /\ IF DataDriven
     THEN /\ rec' = IF Len(rec) < Len(sent) THEN Append(rec, DataBus) ELSE rec
          /\ hostData' = hostData
     ELSE /\ rec' = rec
          /\ hostData' = IF acks < Len(rec) THEN rec[acks + 1] ELSE 0
  /\ UNCHANGED <<hwVars, cs, a1>>
  /\ Tick
  /\ UNCHANGED <<pc, localVars, ghostVars, sent, extra, carefulDma, csSeen>>

LoopExtraAck ==
  /\ PinCnf(crhA, 11) = 11
  /\ DrqLine = 1
  /\ ack = 1
  /\ extra < MaxExtraAck
  /\ ack' = 0
  /\ extra' = extra + 1
  /\ UNCHANGED <<hwVars, cs, a1, hostData>>
  /\ Tick
  /\ UNCHANGED <<pc, localVars, ghostVars, rec, sent, acks, carefulDma, csSeen>>

DmaInit == InitEngine /\ carefulDma \in BOOLEAN

DmaNext ==
  \/ (\E blk \in LoopBlocks : LoopSend(blk))
  \/ LoopRead
  \/ DmaStep
  \/ LoopAck \/ AckRise \/ LoopExtraAck
  \/ ForeignBlock

\* The engine keeps executing and the host keeps answering request pulses.
DmaSpec ==
  /\ DmaInit
  /\ [][DmaNext]_vars
  /\ WF_vars(DmaStep)
  /\ WF_vars(LoopAck)
  /\ WF_vars(AckRise)

(***************************************************************************)
(* Properties.                                                             *)
(***************************************************************************)
Bit(x, n) == (x \div Pow2(n)) % 2

\* The device ids enabled in a device mask.
MaskIds(m) == {d \in 0..7 : Bit(m, d) = 1}

Returned(name) == pc = "idle" /\ lastRet = name

\* C1: waitCommand(mask) gets past its polling loop, and returns, only on a
\* port snapshot with A1 and CS both low whose top three data bits name a
\* device of mask; with an empty mask it never gets past the loop.
C1_OnlySelectedStrobe ==
  (pc \in {"waitCommand_idle", "waitCommand_cs", "waitCommand_ret"}
     \/ Returned("waitCommand"))
  => /\ Bit(port, 6) = 0
     /\ Bit(port, 7) = 0
     /\ (port \div 8192) \in MaskIds(mask)

C1_Witness ==
  /\ Returned("waitCommand")
  /\ mask = 132
  /\ port \div 8192 = 7
  /\ Bit(port, 6) = 0 /\ Bit(port, 7) = 0

\* C2: waitCommand accepts a strobe (goes on to wait for CS high) only if
\* IRQ, DRQ and ACK were all high in the port value idle() read.
C2_AcceptsOnlyIdleBus ==
  pc = "waitCommand_cs"
  => (Bit(idrA, 8) = 1 /\ Bit(idrA, 11) = 1 /\ Bit(idrA, 12) = 1)

\* C3: idle() is true iff IRQ, DRQ and ACK are all high in the port value.
C3_IdleIffAllHigh ==
  idle(GPIOA_IDR) <=> (IrqLine = 1 /\ DrqLine = 1 /\ ack = 1)

InOrder(t) == \A k \in 1..Len(t) : t[k] = k - 1

C5_BatchingInvisible ==
  /\ InOrder(touched)
  /\ Len(touched) <= req
  /\ resets <= req
  /\ resets - Len(touched) \in {-1, 0, 1}
  /\ (Returned("readDma") \/ Returned("sendDma"))
       => (Len(touched) = req /\ resets = req)
  /\ req = 0 => DrqLine = 1

C5_Witness ==
  /\ Returned("sendDma")
  /\ req = 2 * UNROLL + 1
  /\ Len(touched) = req
  /\ resets = req

\* C6: once a call has returned, the data pins, the IRQ pin and the DRQ pin
\* are all configured as floating inputs.
C6_NothingDrivenAfterReturn ==
  (pc = "idle" /\ lastRet # "none")
  => /\ \A n \in 8..15 : PinCnf(crhB, n) = 4
     /\ PinCnf(crhA, 8) = 4
     /\ PinCnf(crhA, 11) = 4

C6_Witness ==
  /\ Returned("sendDma")
  /\ req = MaxDmaCount
  /\ \A n \in 8..15 : PinCnf(crhB, n) = 4
  /\ PinCnf(crhA, 8) = 4
  /\ PinCnf(crhA, 11) = 4

\* C7: systick is disabled at every busy-wait poll of the engine.
PollPcs ==
  {"waitCommand_poll", "waitCommand_idle", "waitCommand_cs", "readIrq_poll",
   "readIrqN_cs", "sendIrq_csLow", "sendIrq_csHigh", "readDma_wait",
   "sendDma_wait"}

C7_SystickOffAtPolls == pc \in PollPcs => ~systick

\* C8: whenever a call has returned, systick is enabled.
C8_SystickOnAfterReturn == (pc = "idle" /\ lastRet # "none") => systick

C8_Witness == Returned("readIrqN") /\ req = MaxIrqCount /\ systick

\* C9: with ACSI_CAREFUL_DMA, a block transfer whose wait loop ended on a
\* counter value above 1 in some slot goes on to no further slot.
C9_StrictAborts ==
  (carefulDma /\ overrunAt >= 0) => Len(touched) <= overrunAt + 1

\* C10: without ACSI_CAREFUL_DMA, every block transfer returns if the host
\* answers every request pulse.
C10_Terminates == (~carefulDma /\ pc # "idle") ~> (pc = "idle")

\* C11: while chip-select is low, a call that stands at its disconnect guard
\* (after the strobe accepted by waitCommand, after the last byte of the
\* multi-byte readIrq, after the chip-select assertion seen by sendIrq) stays
\* there: no step of the engine or of the host takes it past the guard, so
\* with chip-select low forever the call never returns.
GuardPcs == {"waitCommand_cs", "readIrqN_cs", "sendIrq_csHigh"}

C11_NoReturnWhileCsLow ==
  [][(pc \in GuardPcs /\ cs = 0) => pc' = pc]_vars

C11_Witness ==
  /\ pc = "readIrqN_cs"
  /\ cs = 0
  /\ req = MaxIrqCount
  /\ count = 0

\* C12: in a byte slot of a block transfer, the request line, low since the
\* counter reset, is high again right after the first falling edge of
\* acknowledge, with the engine still where it was (no software step).
C12_DrqRisesAtAckEdge ==
  [][(PinCnf(crhA, 11) = 11 /\ CNT = 0 /\ ack = 1 /\ ack' = 0)
       => (DrqLine' = 1 /\ pc' = pc)]_vars

\* C13: the snapshot on which waitCommand leaves its polling loop shows the
\* strobe, a device of mask and the data bus of that instant; nothing
\* changes the snapshot afterwards, and the byte returned is its data byte,
\* whatever the host does to the data bus in between.
C13_ByteOfStrobeSnapshot ==
  [][/\ (pc = "waitCommand_poll" /\ pc' # pc)
          => /\ cs = 0 /\ a1 = 0
             /\ port' = DataBus * 256
             /\ (DataBus \div 32) \in MaskIds(mask)
     /\ (pc \in {"waitCommand_idle", "waitCommand_cs", "waitCommand_ret"})
          => port' = port
     /\ (pc = "waitCommand_ret" /\ pc' = "idle")
          => retval' = (port \div 256) % 256]_vars

C13_Witness ==
  /\ Returned("waitCommand")
  /\ retval = 8
  /\ (port \div 256) % 256 = 8
  /\ hostData = 255

\* C14: readDma reads the holding register only with the counter non-zero
\* after the reset of the slot, and the byte it stores at index k is the
\* value the host had on the data bus at the acknowledge edge that answered
\* the request pulse of slot k.
ReadDmaPcs ==
  {"readDma_reset", "readDma_wait", "readDma_store", "readDma_releaseDataBus",
   "readDma_releaseRq", "readDma_ret"}

SendDmaPcs ==
  {"sendDma_writeData", "sendDma_reset", "sendDma_wait", "sendDma_releaseDataBus",
   "sendDma_releaseRq", "sendDma_ret"}

C15_DataHeldUntilAckHigh ==
  [][(pc \in SendDmaPcs /\ resets > 0 /\ ack = 0) => DataBus' = DataBus]_vars

\* C16: sendIrq(byte) drives the data bus before the byte, the byte before
\* the interrupt line, holds both while it polls chip-select, leaves the
\* first poll only on chip-select low and the second only on chip-select
\* high, and releases nothing before.
C16_HeldThroughCsPulse ==
  /\ [](pc = "sendIrq_writeData" => (DataDriven /\ IrqLine = 1))
  /\ [](pc = "sendIrq_pullIrq" => (DataDriven /\ DataBus = byte /\ IrqLine = 1))
  /\ [](pc \in {"sendIrq_csLow", "sendIrq_csHigh"}
          => (DataDriven /\ DataBus = byte /\ IrqLine = 0))
  /\ [][(pc = "sendIrq_csLow" /\ pc' # pc)
          => (cs = 0 /\ pc' = "sendIrq_csHigh")]_vars
  /\ [][(pc = "sendIrq_csHigh" /\ pc' # pc) => cs = 1]_vars

C16_Witness ==
  /\ pc = "sendIrq_csHigh"
  /\ cs = 0
  /\ byte = 165
  /\ DataBus = 165
  /\ IrqLine = 0

\* C17 (as stated): the snapshot readIrq() returns was taken with
\* chip-select released (high), at the end of a chip-select low period.
C17_SampledAtCsRelease ==
  pc \in {"readIrq_releaseRq", "readIrq_ret"} => Bit(b, 7) = 1

\* C17 (amended): readIrq() holds the interrupt line low while it polls,
\* stays in the poll while chip-select is high, leaves it on the first
\* snapshot with chip-select low, returns the data byte of that snapshot
\* and has released the interrupt line by then.
C17_SampledWhileCsLow ==
  /\ [](pc = "readIrq_poll" => IrqLine = 0)
  /\ [](pc \in {"readIrq_releaseRq", "readIrq_ret"} => Bit(b, 7) = 0)
  /\ [](pc = "readIrq_ret" => IrqLine = 1)
  /\ [](Returned("readIrq") => (retval = (b \div 256) % 256 /\ IrqLine = 1))
  /\ [][(pc = "readIrq_poll" /\ cs = 1) => pc' = pc]_vars
  /\ [][(pc = "readIrq_poll" /\ pc' # pc)
          => (cs = 0 /\ b' = DataBus * 256 + a1 * A1_MASK)]_vars

C17_Witness ==
  /\ Returned("readIrq")
  /\ retval = 8
  /\ Bit(b, 7) = 0
  /\ IrqLine = 1

\* C18: the timer is enabled in every reachable state.
C18_TimerStaysArmed == CEN

\* C19: once a block transfer has returned, the timer is stopped.
C19_TimerStoppedAfterTeardown ==
  (Returned("readDma") \/ Returned("sendDma")) => ~CEN

\* C20: the multi-byte readIrq never takes a sample in a chip-select low
\* period in which it has taken one already.
C20_DistinctCsPulses ==
  [][(caller = "readIrqN" /\ pc = "readIrq_poll" /\ pc' = "readIrq_releaseRq")
       => ~csSeen]_vars

====
